---- MODULE Spec2Model ----
(***************************************************************************)
(* kuramoto_plot.py: animate_kuramoto and its frame callback animate.      *)
(*                                                                         *)
(* One call of animate_kuramoto is modelled as the steps                   *)
(*   Call     lines 26-71: coordinate tables, canvas, colours, animation   *)
(*            object, plt.close()                                          *)
(*   Animate  lines 46-67: the frame callback, invoked by the animation    *)
(*            driver while it renders (inside anim.save and to_jshtml)     *)
(*   Save     lines 74-75: the optional file export                        *)
(*   Return   line 77: the handle is returned                              *)
(* and calls follow one another; pyplot's registry of open figures is the  *)
(* only state that outlives a call.                                        *)
(*                                                                         *)
(* Phases are multiples of pi/2 (0..3 stands for 0, pi/2, pi, 3pi/2), so   *)
(* that cos and sin are exact; coordinates are reduced fractions.          *)
(***************************************************************************)
EXTENDS Integers, Sequences, FiniteSets

\* ------------------------------------------------------------ bounds
MaxOsc == 2
MaxLen == 4
MaxFigs == 2

\* ------------------------------------------------------------ values
None == <<>>
Some(v) == <<v>>
Get(o) == o[1]

Phases == 0..3
Freqs == {1, 2}
Filenames == {"out.gif"}

Abs(n) == IF n < 0 THEN -n ELSE n

RECURSIVE GCD(_, _)
GCD(a, b) == IF b = 0 THEN a ELSE GCD(b, a % b)

\* A float, kept exact: the fraction n/d in lowest terms, d > 0.
Frac(n, d) ==
    LET g == GCD(Abs(n), d)
    IN  [num |-> n \div g, den |-> d \div g]

RECURSIVE SumSeq(_)
SumSeq(s) == IF s = <<>> THEN 0 ELSE Head(s) + SumSeq(Tail(s))

MinOf(s) == CHOOSE m \in {s[k] : k \in 1..Len(s)} : \A k \in 1..Len(s) : m <= s[k]
MaxOf(s) == CHOOSE m \in {s[k] : k \in 1..Len(s)} : \A k \in 1..Len(s) : m >= s[k]

\* ------------------------------------------------------------ inputs
\* A phase trajectory of a free oscillator: a quarter turn per timestep.
Trajectory(start, len) == [t \in 1..len |-> (start + (t - 1)) % 4]
Trajectories == {Trajectory(s, l) : s \in Phases, l \in 0..MaxLen}
OscillatorData == UNION {[1..n -> Trajectories] : n \in 0..MaxOsc}
FrequencyLists(n) ==
    {None} \cup {Some(f) : f \in [1..n -> Freqs]}
           \cup (IF n > 0 THEN {Some(f) : f \in [1..(n - 1) -> Freqs]} ELSE {})
\* steps_per_frame: 0, 1, 2 and the default of line 8.
StepsPerFrame == 0..3
SaveGifs == {None} \cup {Some(f) : f \in Filenames}

\* ------------------------------------------------------------ numpy
Ragged(od) == \E j, k \in 1..Len(od) : Len(od[j]) # Len(od[k])

RECURSIVE MinLen(_)
MinLen(od) ==
    IF Len(od) = 1 THEN Len(od[1])
    ELSE LET m == MinLen(Tail(od))
         IN  IF Len(od[1]) < m THEN Len(od[1]) ELSE m

\* np.array of trajectories cut to the shortest one: what the code does NOT do.
NpArrayTruncating(od) ==
    [ok |-> TRUE,
     value |-> IF Len(od) = 0 THEN od
               ELSE [j \in 1..Len(od) |-> SubSeq(od[j], 1, MinLen(od))]]

\* np.array(oscillator_data): a rectangular table, or no array at all when the
\* rows differ in length.
NpArray(od) ==
    IF Ragged(od) THEN [ok |-> FALSE, value |-> <<>>]
    ELSE [ok |-> TRUE, value |-> od]

\* What a ragged input raises: ValueError from np.array (line 27) on a numpy
\* that rejects inhomogeneous shapes, TypeError from np.cos of the object
\* array (line 28) on a numpy that still builds one.
RaggedErrors == {"ValueError", "TypeError"}

\* The shape of np.array(()) taken for a table with no rows.
ShapeAlways2D(data) ==
    IF Len(data) = 0 THEN <<0, 0>> ELSE <<Len(data), Len(data[1])>>

\* data.shape: (0,) for no trajectories, (N, L) otherwise.
Shape(data) ==
    IF Len(data) = 0 THEN <<0>> ELSE <<Len(data), Len(data[1])>>

\* np.cos, np.sin on multiples of pi/2.
CosTable == <<1, 0, -1, 0>>
SinTable == <<0, 1, 0, -1>>
Cos(phase) == Frac(CosTable[phase + 1], 1)
Sin(phase) == Frac(SinTable[phase + 1], 1)

CosAll(data) == [j \in 1..Len(data) |-> [t \in 1..Len(data[j]) |-> Cos(data[j][t])]]
SinAll(data) == [j \in 1..Len(data) |-> [t \in 1..Len(data[j]) |-> Sin(data[j][t])]]

NaN == "nan"

\* np.mean(table, axis=0): the mean down each column; of an array with no
\* rows (shape (0,)), the scalar nan.
MeanAxis0(table) ==
    IF Len(table) = 0 THEN NaN
    ELSE [t \in 1..Len(table[1]) |->
            Frac(SumSeq([j \in 1..Len(table) |-> table[j][t].num]), Len(table))]

\* table[j, t] with 0-based indices; IndexError when out of bounds.
InBounds2(table, j, t) == j + 1 \in 1..Len(table) /\ t + 1 \in 1..Len(table[j + 1])
InBounds1(row, t) == t + 1 \in 1..Len(row)

\* ------------------------------------------------------------ matplotlib
\* Normalize(vmin, vmax) followed by the 256-entry colour map: the index of the
\* colour-map entry a frequency falls on (0 when vmin = vmax).
LutIndex(f, vmin, vmax) ==
    IF vmin = vmax THEN 0
    ELSE LET k == ((f - vmin) * 256) \div (vmax - vmin)
         IN  IF k > 255 THEN 255 ELSE k

\* cmap(norm(natural_frequencies)), lines 41-43.
Colors(nf) ==
    [j \in 1..Len(nf) |-> <<"coolwarm", LutIndex(nf[j], MinOf(nf), MaxOf(nf))>>]

\* The axes after lines 35-37: axis off, the unit circle outline, no lines.
UnitCircle == [center |-> <<0, 0>>, radius |-> 1, edgecolor |-> "grey"]
FreshAxes == [axis |-> "off", patches |-> <<UnitCircle>>, lines |-> <<>>]

\* pyplot's registry of open figures, oldest first; the last one is current.
NextNum(registry) ==
    IF registry = <<>> THEN 1
    ELSE 1 + (CHOOSE m \in {registry[k].num : k \in 1..Len(registry)} :
                 \A k \in 1..Len(registry) : m >= registry[k].num)

\* plt.figure() and the axes set up on it, lines 34-37.
PltFigure(registry) == Append(registry, [num |-> NextNum(registry), axes |-> FreshAxes])

\* plt.close(): the current figure leaves the registry, line 71.
PltClose(registry) == SubSeq(registry, 1, Len(registry) - 1)

\* ------------------------------------------------------------ frames
\* The frame count rounded up instead of down.
FrameCountCeil(shape, spf) == (shape[2] + spf - 1) \div spf

\* The frame count with the division forgotten.
FrameCountNoDivision(shape, spf) == shape[2]

\* data.shape[1] // steps_per_frame, line 70 (both operands >= 0 here).
FrameCount(shape, spf) == shape[2] \div spf

Truthy(o) == o # None /\ Get(o) # ""

\* ------------------------------------------------------------ state
VARIABLES
    pc,                       \* "idle"; where the running call stands: "save", "jshtml";
                              \* "done" once it has returned or raised
    figs,                     \* pyplot's registry of open figures
    result,                   \* what the last finished call gave: "HTML" or the exception
    writes,                   \* files written by the current (or last) call
    call,                     \* what the caller passed last: trajectory lengths, save_gif
    oscillator_data, natural_frequencies, show_average, steps_per_frame, save_gif,
    number_of_oscillators, xs, ys, avg_x, avg_y,
    ax,                       \* the axes of the call's own figure
    natural_frequency_colors, \* None while unbound (line 40 not taken)
    frames,                   \* the frame count handed to FuncAnimation
    drawn,                    \* the frame index of the last finished callback
    timestep_num,             \* the timestep that callback read
    redrawn                   \* that callback found an earlier frame's markers

locals == <<oscillator_data, natural_frequencies, show_average, steps_per_frame,
            save_gif, number_of_oscillators, xs, ys, avg_x, avg_y, ax,
            natural_frequency_colors, frames, drawn, timestep_num, redrawn>>
vars == <<pc, figs, result, writes, call, locals>>

\* The frame of a finished call is gone.
ClearLocals ==
    /\ oscillator_data' = <<>>
    /\ natural_frequencies' = None
    /\ show_average' = FALSE
    /\ steps_per_frame' = 0
    /\ save_gif' = None
    /\ number_of_oscillators' = 0
    /\ xs' = <<>>
    /\ ys' = <<>>
    /\ avg_x' = <<>>
    /\ avg_y' = <<>>
    /\ ax' = None
    /\ natural_frequency_colors' = None
    /\ frames' = 0
    /\ drawn' = None
    /\ timestep_num' = None
    /\ redrawn' = FALSE

Init ==
    /\ pc = "idle"
    /\ figs = <<>>
    /\ result = "none"
    /\ writes = 0
    /\ call = None
    /\ oscillator_data = <<>>
    /\ natural_frequencies = None
    /\ show_average = FALSE
    /\ steps_per_frame = 0
    /\ save_gif = None
    /\ number_of_oscillators = 0
    /\ xs = <<>>
    /\ ys = <<>>
    /\ avg_x = <<>>
    /\ avg_y = <<>>
    /\ ax = None
    /\ natural_frequency_colors = None
    /\ frames = 0
    /\ drawn = None
    /\ timestep_num = None
    /\ redrawn = FALSE

\* An exception leaves animate_kuramoto: the call is over, with the registry
\* as it stood when the exception was raised.
Raise(err, registry) ==
    /\ pc' = "done"
    /\ result' = err
    /\ figs' = registry
    /\ ClearLocals

\* ------------------------------------------------------------ animate_kuramoto, lines 26-71
Call(od, nf, sa, spf, sg) ==
    /\ pc = "idle"
    /\ Len(figs) < MaxFigs
    /\ call' = Some([lens |-> [j \in 1..Len(od) |-> Len(od[j])], save_gif |-> sg])
    /\ UNCHANGED writes
    /\ LET data == NpArray(od)
       IN  IF ~data.ok
           THEN \E err \in RaggedErrors : Raise(err, figs)
           ELSE
             LET opened == PltFigure(figs)
                 shape == Shape(data.value)
             IN  IF nf # None /\ Get(nf) = <<>>
                 THEN Raise("ValueError", opened)            \* min() of nothing, line 42
                 ELSE IF Len(shape) < 2
                 THEN Raise("IndexError", opened)            \* data.shape[1], line 70
                 ELSE IF spf = 0
                 THEN Raise("ZeroDivisionError", opened)     \* // 0, line 70
                 ELSE
                   /\ oscillator_data' = od
                   /\ natural_frequencies' = nf
                   /\ show_average' = sa
                   /\ steps_per_frame' = spf
                   /\ save_gif' = sg
                   /\ number_of_oscillators' = Len(od)
                   /\ xs' = CosAll(data.value)
                   /\ ys' = SinAll(data.value)
                   /\ avg_x' = MeanAxis0(CosAll(data.value))
                   /\ avg_y' = MeanAxis0(SinAll(data.value))
                   /\ ax' = Some(opened[Len(opened)].axes)
                   /\ natural_frequency_colors' =
                          IF nf # None THEN Some(Colors(Get(nf))) ELSE None
                   /\ frames' = FrameCount(shape, spf)
                   /\ drawn' = None
                   /\ timestep_num' = None
                   /\ redrawn' = FALSE
                   /\ figs' = PltClose(opened)
                   /\ pc' = "save"
                   /\ result' = "none"

\* ------------------------------------------------------------ animate, lines 46-67
\* get_lines() hands out the axes' own list, so removing while iterating
\* skips every other line.
RECURSIVE RemoveLive(_, _)
RemoveLive(lines, p) ==
    IF p > Len(lines) THEN lines
    ELSE RemoveLive(SubSeq(lines, 1, p - 1) \o SubSeq(lines, p + 1, Len(lines)), p + 1)
RemoveOldPointsLive(lines) == RemoveLive(lines, 1)

\* line.remove(): the artist leaves the axes' list of lines.
RemoveArtist(lines, line) ==
    LET p == CHOOSE k \in 1..Len(lines) : lines[k] = line
    IN  SubSeq(lines, 1, p - 1) \o SubSeq(lines, p + 1, Len(lines))

\* get_lines() returns a new list holding the axes' lines.
GetLines(lines) == lines

RECURSIVE RemoveEach(_, _)
RemoveEach(snapshot, lines) ==
    IF snapshot = <<>> THEN lines
    ELSE RemoveEach(Tail(snapshot), RemoveArtist(lines, Head(snapshot)))

\* Lines 49-50.
RemoveOldPoints(lines) == RemoveEach(GetLines(lines), lines)

\* Line 53.
TimestepNum(i) == i * steps_per_frame

\* The timestep read in iteration j of the loop, were it computed from the
\* loop variable that rebinds i.
LoopTimestepRebound(i, j) == TimestepNum(j)

\* The timestep read in iteration j of the loop of lines 55-60: timestep_num
\* was bound on line 53, before the loop rebinds i.
LoopTimestep(i, j) == TimestepNum(i)

\* Every marker given the colour of the first oscillator.
PointColorFirst(j) ==
    IF natural_frequencies # None THEN Get(natural_frequency_colors)[1] ELSE <<"k">>

\* The color argument of lines 57 and 59 (j is the loop variable, from 0).
PointColor(j) ==
    IF natural_frequencies # None THEN Get(natural_frequency_colors)[j + 1] ELSE <<"k">>

\* Does iteration j of the loop raise IndexError?
PointRaises(i, j) ==
    \/ ~InBounds2(xs, j, LoopTimestep(i, j))
    \/ natural_frequencies # None /\ ~InBounds1(Get(natural_frequency_colors), j)

\* ax.plot of lines 57/59: one marker; frame and k say which callback made the
\* artist and as its how-manieth, which tells artists apart.
Point(i, j) ==
    [x |-> xs[j + 1][LoopTimestep(i, j) + 1],
     y |-> ys[j + 1][LoopTimestep(i, j) + 1],
     marker |-> "o", color |-> PointColor(j), markeredgecolor |-> "k",
     frame |-> i, k |-> j]

\* The mean-field marker read at the frame index instead of the timestep.
AveragePointAtFrame(i) ==
    [x |-> avg_x[i + 1], y |-> avg_y[i + 1],
     marker |-> "x", color |-> <<"gray">>, markeredgecolor |-> "k",
     frame |-> i, k |-> number_of_oscillators]

\* ax.plot of line 64.
AveragePoint(i) ==
    [x |-> avg_x[TimestepNum(i) + 1], y |-> avg_y[TimestepNum(i) + 1],
     marker |-> "x", color |-> <<"gray">>, markeredgecolor |-> "k",
     frame |-> i, k |-> number_of_oscillators]

AnimateRaises(i) ==
    \/ \E j \in 0..(number_of_oscillators - 1) : PointRaises(i, j)
    \/ show_average /\ ~InBounds1(avg_x, TimestepNum(i))

\* pts, lines 54-65.
Pts(i) ==
    [j \in 1..number_of_oscillators |-> Point(i, j - 1)]
    \o (IF show_average THEN <<AveragePoint(i)>> ELSE <<>>)

\* The frame callback.
Animate(i) ==
    /\ IF AnimateRaises(i)
       THEN Raise("IndexError", figs)
       ELSE /\ ax' = Some([Get(ax) EXCEPT !.lines = RemoveOldPoints(@) \o Pts(i)])
            /\ drawn' = Some(i)
            /\ timestep_num' = Some(TimestepNum(i))
            /\ redrawn' = (Get(ax).lines # <<>>)
            /\ UNCHANGED <<pc, figs, result, oscillator_data, natural_frequencies,
                           show_average, steps_per_frame, save_gif,
                           number_of_oscillators, xs, ys, avg_x, avg_y,
                           natural_frequency_colors, frames>>
    /\ UNCHANGED <<writes, call>>

\* ------------------------------------------------------------ lines 73-77
\* The export skipped whatever save_gif is.
ShouldSaveNever(sg) == FALSE

\* Line 74.
ShouldSave(sg) == Truthy(sg)

\* Lines 74-75: anim.save(save_gif) writes the file, or fails with OSError.
Save ==
    /\ pc = "save"
    /\ UNCHANGED call
    /\ IF ShouldSave(save_gif)
       THEN \E written \in BOOLEAN :
              IF written
              THEN /\ writes' = writes + 1
                   /\ pc' = "jshtml"
                   /\ UNCHANGED <<figs, result, locals>>
              ELSE /\ Raise("OSError", figs)
                   /\ UNCHANGED writes
       ELSE /\ pc' = "jshtml"
            /\ UNCHANGED <<figs, result, writes, locals>>

\* Line 77.
Return ==
    /\ pc = "jshtml"
    /\ pc' = "done"
    /\ result' = "HTML"
    /\ ClearLocals
    /\ UNCHANGED <<figs, writes, call>>

\* The caller is done with the result and may call again.
NextCall ==
    /\ pc = "done"
    /\ pc' = "idle"
    /\ result' = "none"
    /\ writes' = 0
    /\ call' = None
    /\ UNCHANGED <<figs, locals>>

\* A caller invokes animate_kuramoto. A ragged table fails whatever the other
\* arguments are, so they are drawn only for the calls that read them.
Invoke ==
    /\ pc = "idle"
    /\ \E od \in OscillatorData, sg \in SaveGifs :
          IF Ragged(od)
          THEN Call(od, None, FALSE, 1, sg)
          ELSE \E sa \in BOOLEAN, spf \in StepsPerFrame, nf \in FrequencyLists(Len(od)) :
                  Call(od, nf, sa, spf, sg)

\* The driver renders a frame, inside anim.save (reached only when save_gif is
\* set) or inside to_jshtml; it asks only for frames 0 .. frames-1.
Render ==
    /\ pc \in {"save", "jshtml"}
    /\ pc = "save" => ShouldSave(save_gif)
    /\ \E i \in 0..(frames - 1) : Animate(i)

Next ==
    \/ Invoke
    \/ Render
    \/ Save
    \/ Return
    \/ NextCall

Spec == Init /\ [][Next]_vars

\* ------------------------------------------------------------ properties
Rendering == pc \in {"save", "jshtml"}
Drawn == Rendering /\ drawn # None

\* The length of the trajectories of the running call (all are equal).
TrajectoryLength == Len(oscillator_data[1])

\* The markers on the canvas of the running call.
Canvas == Get(ax).lines

P(a, b) == <<Frac(a, 1), Frac(b, 1)>>
Position(m) == <<m.x, m.y>>

\* C1: whenever an animation has been created, for trajectories of length L
\* and steps_per_frame >= 1, the frame count handed to the driver is
\* floor(L / steps_per_frame): frames * spf <= L < (frames + 1) * spf.
FrameCountIsFloor ==
    Rendering =>
        /\ steps_per_frame >= 1
        /\ frames >= 0
        /\ frames * steps_per_frame <= TrajectoryLength
        /\ TrajectoryLength < (frames + 1) * steps_per_frame

\* C1, reached: length 3 at 2 steps per frame gives one frame.
FrameCountWitness ==
    Rendering /\ TrajectoryLength = 3 /\ steps_per_frame = 2 /\ frames = 1

\* C2: after the callback has drawn frame i, oscillator j's marker stands at
\* (cos, sin) of phase[j][i * steps_per_frame], the same timestep for every
\* oscillator; for trajectories [0, pi/2] and [pi, 3pi/2] at one step per frame,
\* frame 0 shows (1,0), (-1,0) and frame 1 shows (0,1), (0,-1).
ExampleData == <<(<<0, 1>>), (<<2, 3>>)>>
OscillatorsDrawnAtFrameTimestep ==
    Drawn =>
        LET t == Get(drawn) * steps_per_frame
        IN  /\ Len(Canvas) >= number_of_oscillators
            /\ \A j \in 1..number_of_oscillators :
                  /\ t + 1 \in 1..Len(oscillator_data[j])
                  /\ Canvas[j].x = Cos(oscillator_data[j][t + 1])
                  /\ Canvas[j].y = Sin(oscillator_data[j][t + 1])
            /\ (oscillator_data = ExampleData /\ steps_per_frame = 1) =>
                  /\ drawn = Some(0) =>
                        /\ Position(Canvas[1]) = P(1, 0)
                        /\ Position(Canvas[2]) = P(-1, 0)
                  /\ drawn = Some(1) =>
                        /\ Position(Canvas[1]) = P(0, 1)
                        /\ Position(Canvas[2]) = P(0, -1)

\* C2, reached: frame 1 of the example, drawn over an earlier frame.
ExampleFrameOneWitness ==
    /\ Drawn
    /\ oscillator_data = ExampleData
    /\ steps_per_frame = 1
    /\ drawn = Some(1)
    /\ redrawn

\* C3: while the driver renders, the unit circle stays on the canvas; before
\* the first callback there is no marker, and after any callback the canvas
\* holds exactly one marker per oscillator, plus one mean-field marker iff
\* show_average, every one of them made by the latest callback.
CanvasHoldsOnlyLastFrame ==
    Rendering =>
        /\ Get(ax).patches = <<UnitCircle>>
        /\ drawn = None => Canvas = <<>>
        /\ drawn # None =>
              /\ Len(Canvas) = number_of_oscillators + (IF show_average THEN 1 ELSE 0)
              /\ \A k \in 1..Len(Canvas) : Canvas[k].frame = Get(drawn)
              /\ \A j \in 0..(number_of_oscillators - 1) :
                    Cardinality({k \in 1..Len(Canvas) :
                        Canvas[k].marker = "o" /\ Canvas[k].k = j}) = 1
              /\ Cardinality({k \in 1..Len(Canvas) : Canvas[k].marker = "x"})
                    = (IF show_average THEN 1 ELSE 0)

\* C3, reached: a callback that found the markers of an earlier frame, with
\* two oscillators and the mean-field marker.
RedrawWitness ==
    /\ Drawn
    /\ redrawn
    /\ number_of_oscillators = 2
    /\ show_average
    /\ Len(Canvas) = 3

\* C4: a call with trajectories of differing lengths ends at once with an
\* invalid-input exception (ValueError or TypeError): no animation is created
\* (nothing is truncated to the shortest trajectory), no handle is returned and
\* no file is written.
DifferingLengths(lens) == \E j, k \in 1..Len(lens) : lens[j] # lens[k]
RaggedInputRaises ==
    (call # None /\ DifferingLengths(Get(call).lens)) =>
        /\ pc = "done"
        /\ result \in {"ValueError", "TypeError"}
        /\ writes = 0
        /\ ax = None

\* C4, reached: a call with lengths 1 and 3 has raised.
RaggedInputWitness ==
    /\ pc = "done"
    /\ call # None
    /\ Get(call).lens = <<1, 3>>
    /\ result = "ValueError"

\* C5: a call with zero trajectories ends at once with an exception
\* (IndexError, or ValueError when an empty frequency list came with it): no
\* animation is created, no handle is returned and no file is written.
ZeroTrajectoriesFail ==
    (call # None /\ Get(call).lens = <<>>) =>
        /\ pc = "done"
        /\ result \in {"IndexError", "ValueError"}
        /\ writes = 0
        /\ ax = None

\* C5, reached: a call with no trajectory and a filename has raised IndexError.
ZeroTrajectoriesWitness ==
    /\ pc = "done"
    /\ call # None
    /\ Get(call).lens = <<>>
    /\ Get(call).save_gif # None
    /\ result = "IndexError"

\* C6: a call writes at most one file; it writes none when no filename was
\* given; with a filename, the file has been written before to_jshtml runs and
\* before the handle is returned, so a call whose write failed returns no
\* handle.
ExportedOnceBeforeReturn ==
    /\ writes <= 1
    /\ (call # None /\ Get(call).save_gif = None) => writes = 0
    /\ (pc = "jshtml" /\ save_gif # None) => writes = 1
    /\ (result = "HTML" /\ Get(call).save_gif # None) => writes = 1
    /\ result = "OSError" => (pc = "done" /\ writes = 0 /\ Get(call).save_gif # None)

\* C6, reached: a call given a filename has returned its handle.
ExportedWitness ==
    /\ pc = "done"
    /\ result = "HTML"
    /\ Get(call).save_gif = Some("out.gif")
    /\ writes = 1

\* C7: without natural_frequencies no colour table is computed and every
\* oscillator marker of every drawn frame is 'k'; with natural_frequencies,
\* oscillator j's marker carries the colour-map entry that natural_frequencies[j]
\* falls on when [min, max] is mapped linearly onto the 256 entries.
OnScale(entry, f, lo, hi) ==
    IF lo = hi THEN entry = 0
    ELSE IF f = hi THEN entry = 255
    ELSE /\ entry * (hi - lo) <= 256 * (f - lo)
         /\ 256 * (f - lo) < (entry + 1) * (hi - lo)
ColoursFollowFrequencies ==
    Rendering =>
        /\ natural_frequencies = None =>
              /\ natural_frequency_colors = None
              /\ drawn # None =>
                    /\ Len(Canvas) >= number_of_oscillators
                    /\ \A j \in 1..number_of_oscillators : Canvas[j].color = <<"k">>
        /\ (natural_frequencies # None /\ drawn # None) =>
              LET nf == Get(natural_frequencies)
              IN  /\ Len(Canvas) >= number_of_oscillators
                  /\ Len(nf) >= number_of_oscillators
                  /\ \A j \in 1..number_of_oscillators :
                        /\ Len(Canvas[j].color) = 2
                        /\ Canvas[j].color[1] = "coolwarm"
                        /\ OnScale(Canvas[j].color[2], nf[j], MinOf(nf), MaxOf(nf))

\* C7, reached: two oscillators with frequencies 2 and 1 drawn at the two
\* ends of the colour map.
ColoursWitness ==
    /\ Drawn
    /\ natural_frequencies = Some(<<2, 1>>)
    /\ Canvas[1].color = <<"coolwarm", 255>>
    /\ Canvas[2].color = <<"coolwarm", 0>>

\* C8: with show_average, the last marker of a drawn frame i is the mean-field
\* marker, and N times its x (y) is the sum of cos (sin) of phase[j][i *
\* steps_per_frame] over the N oscillators, which is the sum of the x (y) of
\* the oscillator markers on the canvas.
MeanFieldIsAverage ==
    (Drawn /\ show_average) =>
        LET n == number_of_oscillators
            t == Get(drawn) * steps_per_frame
        IN  /\ Len(Canvas) = n + 1
            /\ Canvas[n + 1].marker = "x"
            /\ LET m == Canvas[n + 1]
               IN  /\ m.x.den > 0
                   /\ m.y.den > 0
                   /\ m.x.num * n
                        = m.x.den * SumSeq([j \in 1..n |-> Cos(oscillator_data[j][t + 1]).num])
                   /\ m.y.num * n
                        = m.y.den * SumSeq([j \in 1..n |-> Sin(oscillator_data[j][t + 1]).num])
                   /\ m.x.num * n = m.x.den * SumSeq([j \in 1..n |-> Canvas[j].x.num])
                   /\ m.y.num * n = m.y.den * SumSeq([j \in 1..n |-> Canvas[j].y.num])

\* C8, reached: frame 1 at two steps per frame, two oscillators a quarter turn
\* apart, the mean-field marker at (-1/2, 1/2).
MeanFieldWitness ==
    /\ Drawn
    /\ show_average
    /\ number_of_oscillators = 2
    /\ steps_per_frame = 2
    /\ drawn = Some(1)
    /\ Position(Canvas[3]) = <<Frac(-1, 2), Frac(1, 2)>>

\* C9: once a call has returned or raised, no figure it created is left in
\* pyplot's registry of open figures.
NoCanvasLeftOpen == pc \in {"idle", "done"} => figs = <<>>

\* C10: while the driver renders trajectories of length L >= 1, every frame
\* index it may ask for reads a timestep within 0 .. L-1, and a drawn frame
\* read a timestep no later than (floor(L / steps_per_frame) - 1) * steps_per_frame.
FramesStayInTrajectory ==
    (Rendering /\ TrajectoryLength >= 1) =>
        /\ \A i \in 0..(frames - 1) : TimestepNum(i) \in 0..(TrajectoryLength - 1)
        /\ drawn # None =>
              /\ Get(drawn) \in 0..(frames - 1)
              /\ Get(timestep_num) = Get(drawn) * steps_per_frame
              /\ Get(timestep_num) \in 0..(TrajectoryLength - 1)
              /\ Get(timestep_num)
                    <= ((TrajectoryLength \div steps_per_frame) - 1) * steps_per_frame

\* C10, reached: the last frame (frame 1) of a length-4 trajectory at two
\* steps per frame has read timestep 2; timestep 3 is never shown.
LastFrameWitness ==
    /\ Drawn
    /\ TrajectoryLength = 4
    /\ steps_per_frame = 2
    /\ drawn = Some(1)
    /\ timestep_num = Some(2)

====
